---- MODULE Spec2Model ----
(***************************************************************************)
(* Model of src/EpochCore_ARCPI/epoch1_master_pack.py: the swarm node      *)
(* matrix, the entanglement graph built by FlashSyncEngine.__init__, and   *)
(* the cascade / full flash synchronisation coroutines run by asyncio.     *)
(*                                                                         *)
(* Floats are modelled as fixed-point integers with four decimals          *)
(* (One = 1.0); every multiplication and division rounds to that           *)
(* resolution, as an IEEE operation rounds to its own.                     *)
(***************************************************************************)
EXTENDS Integers, Sequences, FiniteSets, TLC

\* ------------------------------------------------------------------ bounds
MaxNodes == 3        \* longest matrix handed to the sync engine
MaxBuildNodes == 4   \* longest matrix handed to the graph builder
MaxBuilds == 2       \* engines constructed over the same node objects
MaxCalls == 2        \* top-level calls made by the single caller
MaxConcNodes == 2    \* longest matrix under concurrent callers
MaxConcCalls == 1    \* top-level calls made by caller 1 beside caller 2's one
MaxReads == 2        \* read-only calls made by the other tasks
MaxScores == 3       \* longest score sequence handed to phi_weighted

\* --------------------------------------------------------------- constants
One == 10000         \* the float 1.0
PHI == 16180         \* PHI = 1.618033988749895

QUANTUM == "quantum"
NodeLayer == {"infrastructure", "application", "intelligence", "orchestration", QUANTUM}

Callers == {1, 2}    \* tasks of the event loop that may call into the engine

\* --------------------------------------------------------- float helpers
\* a * b, rounded to the resolution
Mul(a, b) == (a * b + One \div 2) \div One
\* a / b, rounded to the resolution (b > 0)
Div(a, b) == (a * One + b \div 2) \div b
Min(a, b) == IF a <= b THEN a ELSE b

RECURSIVE SumSeq(_)
SumSeq(s) == IF s = <<>> THEN 0 ELSE Head(s) + SumSeq(Tail(s))

InSeq(x, s) == \E k \in 1..Len(s) : s[k] = x

\* ------------------------------------------------------------- SwarmNode
SwarmNode(id, layer, weight) ==
  [id |-> id, layer |-> layer, weight |-> weight, coherence |-> One, entanglement |-> <<>>]

phi_weight(node) == Mul(node.weight, PHI)

\* A sample of the module-level catalogue, in its order: A, B, Q, X, Z.
SWARM_MATRIX ==
  << SwarmNode("A", "intelligence", 10000),
     SwarmNode("B", "infrastructure", 9500),
     SwarmNode("Q", QUANTUM, 16180),
     SwarmNode("X", QUANTUM, 12500),
     SwarmNode("Z", QUANTUM, 16180) >>

\* Identities of synthetic matrices, one per position.
NodeIds == <<"N1", "N2", "N3", "N4", "N5", "N6">>

\* ------------------------------------------------------------- SyncScale
\* SyncScale with MESO and MACRO declared in the other order
SyncScale_reordered ==
  << [name |-> "micro", multiplier |-> One],
     [name |-> "macro", multiplier |-> Mul(PHI, PHI)],
     [name |-> "meso",  multiplier |-> PHI],
     [name |-> "meta",  multiplier |-> Mul(Mul(PHI, PHI), PHI)] >>

SyncScale ==
  << [name |-> "micro", multiplier |-> One],
     [name |-> "meso",  multiplier |-> PHI],
     [name |-> "macro", multiplier |-> Mul(PHI, PHI)],
     [name |-> "meta",  multiplier |-> Mul(Mul(PHI, PHI), PHI)] >>

ScaleNames == {SyncScale[k].name : k \in 1..Len(SyncScale)}

\* ------------------------------------------------- _build_entanglement
\* RingLinks closing the matrix into a cycle: the first and the last node
\* are linked to each other as well
RingLinks_wrap(ent, ns, i) ==
  LET n  == Len(ns)
      e1 == IF i > 1 THEN Append(ent, ns[i - 1].id)
            ELSE IF n > 2 THEN Append(ent, ns[n].id) ELSE ent
  IN  IF i < n THEN Append(e1, ns[i + 1].id)
      ELSE IF n > 2 THEN Append(e1, ns[1].id) ELSE e1

\* RingLinks without the backward link of lines 241-242: a node is linked
\* to its successor only
RingLinks_forward(ent, ns, i) ==
  IF i < Len(ns) THEN Append(ent, ns[i + 1].id) ELSE ent

\* lines 241-244: the links to the adjacent nodes of the matrix
RingLinks(ent, ns, i) ==
  LET e1 == IF i > 1 THEN Append(ent, ns[i - 1].id) ELSE ent
  IN  IF i < Len(ns) THEN Append(e1, ns[i + 1].id) ELSE e1

\* CliqueStep without the membership test of line 249
CliqueStep_nodedup(ent, node, other) ==
  IF other.layer = QUANTUM /\ other.id # node.id
  THEN Append(ent, other.id)
  ELSE ent

\* lines 248-250: one iteration of the inner loop over the other nodes
CliqueStep(ent, node, other) ==
  IF other.layer = QUANTUM /\ other.id # node.id
  THEN IF ~InSeq(other.id, ent) THEN Append(ent, other.id) ELSE ent
  ELSE ent

RECURSIVE CliqueLinks(_, _, _, _)
CliqueLinks(ent, node, ns, j) ==
  IF j > Len(ns) THEN ent
  ELSE CliqueLinks(CliqueStep(ent, node, ns[j]), node, ns, j + 1)

\* EntangleNode with the quantum block indented under the test of line 243,
\* so that the last node of the matrix never reaches it
EntangleNode_nested(ns, i) ==
  LET node == ns[i]
      ring == RingLinks(node.entanglement, ns, i)
  IN  [node EXCEPT !.entanglement =
         IF i < Len(ns) /\ node.layer = QUANTUM
         THEN CliqueLinks(ring, node, ns, 1) ELSE ring]

\* lines 239-250: the body of the outer loop for the node at position i
EntangleNode(ns, i) ==
  LET node == ns[i]
      ring == RingLinks(node.entanglement, ns, i)
  IN  [node EXCEPT !.entanglement =
         IF node.layer = QUANTUM THEN CliqueLinks(ring, node, ns, 1) ELSE ring]

build_entanglement(ns) == [i \in 1..Len(ns) |-> EntangleNode(ns, i)]

\* ---------------------------------------------------- calculate_coherence
\* calculate_coherence as the plain mean of the coherences
calculate_coherence_mean(ns) ==
  LET total == SumSeq([i \in 1..Len(ns) |-> ns[i].coherence])
      max_possible == Len(ns) * One
  IN  IF max_possible > 0 THEN Div(total, max_possible) ELSE 0

\* calculate_coherence falling back on full coherence instead of 0
calculate_coherence_full(ns) ==
  LET total == SumSeq([i \in 1..Len(ns) |-> Mul(ns[i].coherence, phi_weight(ns[i]))])
      max_possible == SumSeq([i \in 1..Len(ns) |-> phi_weight(ns[i])])
  IN  IF max_possible > 0 THEN Div(total, max_possible) ELSE One

calculate_coherence(ns) ==
  LET total == SumSeq([i \in 1..Len(ns) |-> Mul(ns[i].coherence, phi_weight(ns[i]))])
      max_possible == SumSeq([i \in 1..Len(ns) |-> phi_weight(ns[i])])
  IN  IF max_possible > 0 THEN Div(total, max_possible) ELSE 0

\* UpdateCoherence without the ceiling of min(1.0, ...)
UpdateCoherence_noclamp(c, multiplier) ==
  Mul(c, One + Mul(One \div 10, multiplier))

\* UpdateCoherence with the sign of the gain flipped: 1 - 0.1 * multiplier
UpdateCoherence_decay(c, multiplier) ==
  Min(One, Mul(c, One - Mul(One \div 10, multiplier)))

\* UpdateCoherence adding the gain instead of multiplying by it
UpdateCoherence_additive(c, multiplier) ==
  Min(One, c + Mul(One \div 10, multiplier))

\* line 267: the new coherence of one node
UpdateCoherence(c, multiplier) ==
  Min(One, Mul(c, One + Mul(One \div 10, multiplier)))

\* SyncingState without the scale's name
SyncingState_plain(k) == "syncing"

\* line 261: the status written when a stage starts
SyncingState(k) == "syncing_" \o SyncScale[k].name

\* ------------------------------------------------------------------ state
VARIABLES
  nodes,        \* the node objects, in matrix order
  built,        \* number of FlashSyncEngine constructions over these nodes
  sync_state,   \* FlashSyncEngine.sync_state
  running,      \* the caller holding the event loop, 0 when it is free
  pc,           \* position of each caller's coroutine
  call,         \* the top-level call a caller is in: "none", "cascade", "full"
  scale,        \* index in SyncScale of the stage a caller is running
  idx,          \* position in self.nodes.values() of a caller's loop (kept as
                \* history when an observed caller is cancelled, like scale)
  coherence,    \* local variable coherence of cascade_sync / full_flash_sync
  results,      \* local variable results of full_flash_sync
  returned,     \* how each caller's last call ended, and its value
  calls,        \* calls each caller may still make
  observed,     \* the callers whose history is recorded
  stage_old,    \* history: the nodes' coherence when a caller's stage began
  call_old,     \* history: the nodes' coherence when a caller's call began
  upd_log,      \* history: node updates of a caller's current call
  after_last,   \* history: swarm coherence right after a stage's last update
  initial,      \* history: the nodes' coherence before the first call, where
                \* it is recorded
  scores,       \* the scores handed to phi_weighted (execute, line 397)
  ballot,       \* the vote hash(str(proposal) + node.id) % 2 == 0 gives each node
  reads,        \* read-only calls the other tasks may still make
  swarm,        \* what the last calculate_coherence() of a reading task returned
  vote,         \* what the last quantum_vote(proposal) returned
  average       \* what the last phi_weighted(scores) returned

vars == <<nodes, built, sync_state, running, pc, call, scale, idx, coherence,
          results, returned, calls, observed, stage_old, call_old, upd_log,
          after_last, initial, scores, ballot, reads, swarm, vote, average>>

\* what the callers of the sync engine never touch
reader_vars == <<initial, scores, ballot, reads, swarm, vote, average>>

\* the value a history variable of caller t takes: new if t is observed
Obs(t, new, old) == IF t \in observed THEN new ELSE old

Coherences(ns) == [i \in 1..Len(ns) |-> ns[i].coherence]
EmptyMap == [x \in {} |-> 0]
NoReturn == [kind |-> "none", coherence |-> 0, results |-> EmptyMap]

\* a float: finite (v holds it), nan, inf or -inf
Fin(v) == [k |-> "fin", v |-> v]
NaN == [k |-> "nan", v |-> 0]
Inf == [k |-> "inf", v |-> 0]
NInf == [k |-> "ninf", v |-> 0]

NoSwarm == [called |-> FALSE, value |-> 0]
NoVote == [called |-> FALSE, approved |-> FALSE, yes_weight |-> 0, no_weight |-> 0,
           algorithm |-> ""]
NoAverage == [called |-> FALSE, value |-> Fin(0)]

\* no reading task has called yet
ReadersInit ==
  /\ swarm = NoSwarm
  /\ vote = NoVote
  /\ average = NoAverage

\* no reading task runs beside the callers of the sync engine
NoReaders ==
  /\ ReadersInit
  /\ scores = <<>>
  /\ ballot = <<>>
  /\ reads = 0

EngineInit ==
  /\ sync_state = "idle"
  /\ running = 0
  /\ pc = [t \in Callers |-> "idle"]
  /\ call = [t \in Callers |-> "none"]
  /\ scale = [t \in Callers |-> 1]
  /\ idx = [t \in Callers |-> 0]
  /\ coherence = [t \in Callers |-> 0]
  /\ results = [t \in Callers |-> EmptyMap]
  /\ returned = [t \in Callers |-> NoReturn]
  /\ stage_old = [t \in Callers |-> <<>>]
  /\ call_old = [t \in Callers |-> <<>>]
  /\ upd_log = [t \in Callers |-> <<>>]
  /\ after_last = [t \in Callers |-> EmptyMap]

\* ------------------------------------------------- graph construction
\* Freshly created nodes (coherence 1.0, no links), no engine built yet.
InitBuild ==
  /\ \E n \in 0..MaxBuildNodes :
       \E layers \in [1..n -> NodeLayer] :
         nodes = [i \in 1..n |-> SwarmNode(NodeIds[i], layers[i], One)]
  /\ built = 0
  /\ EngineInit
  /\ calls = [t \in Callers |-> 0]
  /\ observed = {}
  /\ initial = <<>>
  /\ NoReaders

\* FlashSyncEngine.__init__ over the node objects
Construct ==
  /\ built < MaxBuilds
  /\ nodes' = build_entanglement(nodes)
  /\ built' = built + 1
  /\ sync_state' = "idle"
  /\ UNCHANGED <<observed, running, pc, call, scale, idx, coherence, results,
                 returned, calls, stage_old, call_old, upd_log, after_last>>
  /\ UNCHANGED reader_vars

NextBuild == Construct

SpecBuild == InitBuild /\ [][NextBuild]_vars

\* ------------------------------------------------- the engine at work
CoherenceValues == {0, 5000, 9000, One}   \* 0.0, 0.5, 0.9, 1.0

\* The engine built once over the first n nodes of the catalogue, the nodes
\* holding any of the sample coherences.
InitSync(maxn, values) ==
  /\ \E n \in 0..maxn :
       \E cs \in [1..n -> values] :
         nodes = build_entanglement(
                   [i \in 1..n |-> [SWARM_MATRIX[i] EXCEPT !.coherence = cs[i]]])
  /\ built = 1
  /\ EngineInit

\* several tasks call into the engine
InitConcurrent ==
  /\ InitSync(MaxConcNodes, {5000, One})
  /\ calls = [t \in Callers |-> IF t = 1 THEN MaxConcCalls ELSE 1]
  /\ observed = {}
  /\ initial = <<>>
  /\ NoReaders

\* the engine has a single caller, as in EPOCH1MasterPack.execute
InitSingle ==
  /\ InitSync(MaxNodes, CoherenceValues)
  /\ calls = [t \in Callers |-> IF t = 1 THEN MaxCalls ELSE 0]
  /\ observed = {1}
  /\ initial = <<>>
  /\ NoReaders

\* ApplyUpdate reaching one node too far: the node after position i is
\* updated in the same iteration
ApplyUpdate_ahead(ns, i, multiplier) ==
  [j \in 1..Len(ns) |->
     IF j = i \/ j = i + 1
     THEN [ns[j] EXCEPT !.coherence = UpdateCoherence(@, multiplier)]
     ELSE ns[j]]

\* ApplyUpdate scaling the node's weight along with its coherence
ApplyUpdate_weight(ns, i, multiplier) ==
  [ns EXCEPT ![i].coherence = UpdateCoherence(@, multiplier),
             ![i].weight = Mul(@, One + Mul(1000, multiplier))]

\* lines 266-267: the update of the node at position i by one iteration
ApplyUpdate(ns, i, multiplier) ==
  [ns EXCEPT ![i].coherence = UpdateCoherence(@, multiplier)]

\* lines 260-261: entry of cascade_sync(SyncScale[k]) in caller t
EnterCascade(t, k) ==
  /\ sync_state' = SyncingState(k)
  /\ scale' = [scale EXCEPT ![t] = k]
  /\ idx' = [idx EXCEPT ![t] = 1]
  /\ pc' = [pc EXCEPT ![t] = "cs_loop"]
  /\ stage_old' = [stage_old EXCEPT ![t] = Obs(t, Coherences(nodes), @)]

\* a caller is handed the free event loop and awaits cascade_sync(scale)
Call_cascade_sync(t) ==
  /\ pc[t] = "idle" /\ running = 0 /\ calls[t] > 0
  /\ \E k \in 1..Len(SyncScale) : EnterCascade(t, k)
  /\ running' = t
  /\ call' = [call EXCEPT ![t] = "cascade"]
  /\ calls' = [calls EXCEPT ![t] = @ - 1]
  /\ returned' = [returned EXCEPT ![t] = NoReturn]
  /\ call_old' = [call_old EXCEPT ![t] = Obs(t, Coherences(nodes), @)]
  /\ upd_log' = [upd_log EXCEPT ![t] = <<>>]
  /\ after_last' = [after_last EXCEPT ![t] = EmptyMap]
  /\ UNCHANGED <<observed, nodes, built, coherence, results>>
  /\ UNCHANGED reader_vars

\* lines 274-277: a caller is handed the free event loop and awaits
\* full_flash_sync()
Call_full_flash_sync(t) ==
  /\ pc[t] = "idle" /\ running = 0 /\ calls[t] > 0
  /\ running' = t
  /\ call' = [call EXCEPT ![t] = "full"]
  /\ calls' = [calls EXCEPT ![t] = @ - 1]
  /\ results' = [results EXCEPT ![t] = EmptyMap]
  /\ scale' = [scale EXCEPT ![t] = 1]
  /\ pc' = [pc EXCEPT ![t] = "ffs_loop"]
  /\ returned' = [returned EXCEPT ![t] = NoReturn]
  /\ call_old' = [call_old EXCEPT ![t] = Obs(t, Coherences(nodes), @)]
  /\ upd_log' = [upd_log EXCEPT ![t] = <<>>]
  /\ after_last' = [after_last EXCEPT ![t] = EmptyMap]
  /\ UNCHANGED <<observed, nodes, built, sync_state, idx, coherence, stage_old>>
  /\ UNCHANGED reader_vars

\* lines 279-280: the next scale of the for loop; cascade_sync is entered
FullNext(t) ==
  /\ pc[t] = "ffs_loop" /\ running = t /\ scale[t] <= Len(SyncScale)
  /\ EnterCascade(t, scale[t])
  /\ UNCHANGED <<observed, nodes, built, running, call, coherence, results, returned,
                 calls, call_old, upd_log, after_last>>
  /\ UNCHANGED reader_vars

\* lines 266-268: one node is updated, then the coroutine sleeps
CascadeUpdate(t) ==
  /\ pc[t] = "cs_loop" /\ running = t /\ idx[t] <= Len(nodes)
  /\ nodes' = ApplyUpdate(nodes, idx[t], SyncScale[scale[t]].multiplier)
  /\ pc' = [pc EXCEPT ![t] = "cs_sleep"]
  /\ running' = 0
  /\ upd_log' = [upd_log EXCEPT ![t] =
       Obs(t, Append(@, <<SyncScale[scale[t]].name, idx[t]>>), @)]
  /\ after_last' = [after_last EXCEPT ![t] =
       IF idx[t] = Len(nodes)
       THEN Obs(t, (SyncScale[scale[t]].name :> calculate_coherence(nodes')) @@ @, @)
       ELSE @]
  /\ UNCHANGED <<observed, built, sync_state, call, scale, idx, coherence, results,
                 returned, calls, stage_old, call_old>>
  /\ UNCHANGED reader_vars

\* Resume stepping over a node: the loop continues two positions further
Resume_skip(t) ==
  /\ pc[t] = "cs_sleep" /\ running = 0
  /\ running' = t
  /\ idx' = [idx EXCEPT ![t] = @ + 2]
  /\ pc' = [pc EXCEPT ![t] = "cs_loop"]
  /\ UNCHANGED <<observed, nodes, built, sync_state, call, scale, coherence, results,
                 returned, calls, stage_old, call_old, upd_log, after_last>>
  /\ UNCHANGED reader_vars

\* line 268: the sleep is over, the event loop resumes the coroutine
Resume(t) ==
  /\ pc[t] = "cs_sleep" /\ running = 0
  /\ running' = t
  /\ idx' = [idx EXCEPT ![t] = @ + 1]
  /\ pc' = [pc EXCEPT ![t] = "cs_loop"]
  /\ UNCHANGED <<observed, nodes, built, sync_state, call, scale, coherence, results,
                 returned, calls, stage_old, call_old, upd_log, after_last>>
  /\ UNCHANGED reader_vars

\* lines 270-272: the loop is over; cascade_sync returns the swarm coherence
\* and its frame is gone
CascadeReturn(t) ==
  /\ pc[t] = "cs_loop" /\ running = t /\ idx[t] > Len(nodes)
  /\ sync_state' = "idle"
  /\ idx' = [idx EXCEPT ![t] = 0]
  /\ IF call[t] = "full"
     THEN /\ coherence' = [coherence EXCEPT ![t] = calculate_coherence(nodes)]
          /\ pc' = [pc EXCEPT ![t] = "ffs_store"]
          /\ UNCHANGED <<running, call, returned, scale, stage_old>>
     ELSE /\ returned' = [returned EXCEPT ![t] =
                 [kind |-> "coherence", coherence |-> calculate_coherence(nodes),
                  results |-> EmptyMap]]
          /\ pc' = [pc EXCEPT ![t] = "idle"]
          /\ call' = [call EXCEPT ![t] = "none"]
          /\ running' = 0
          /\ scale' = [scale EXCEPT ![t] = 1]
          /\ stage_old' = [stage_old EXCEPT ![t] = <<>>]
          /\ UNCHANGED coherence
  /\ UNCHANGED <<observed, nodes, built, results, calls, call_old, upd_log, after_last>>
  /\ UNCHANGED reader_vars

\* line 281: the stage's coherence is stored under the scale's name
FullStore(t) ==
  /\ pc[t] = "ffs_store" /\ running = t
  /\ results' = [results EXCEPT ![t] = (SyncScale[scale[t]].name :> coherence[t]) @@ @]
  /\ scale' = [scale EXCEPT ![t] = @ + 1]
  /\ pc' = [pc EXCEPT ![t] = "ffs_loop"]
  /\ UNCHANGED <<observed, nodes, built, sync_state, running, call, idx, coherence,
                 returned, calls, stage_old, call_old, upd_log, after_last>>
  /\ UNCHANGED reader_vars

\* lines 284-286: the for loop is over; full_flash_sync returns results and
\* its frame is gone
FullReturn(t) ==
  /\ pc[t] = "ffs_loop" /\ running = t /\ scale[t] > Len(SyncScale)
  /\ returned' = [returned EXCEPT ![t] =
        [kind |-> "results", coherence |-> 0, results |-> results[t]]]
  /\ pc' = [pc EXCEPT ![t] = "idle"]
  /\ call' = [call EXCEPT ![t] = "none"]
  /\ running' = 0
  /\ scale' = [scale EXCEPT ![t] = 1]
  /\ coherence' = [coherence EXCEPT ![t] = 0]
  /\ results' = [results EXCEPT ![t] = EmptyMap]
  /\ stage_old' = [stage_old EXCEPT ![t] = <<>>]
  /\ UNCHANGED <<observed, nodes, built, sync_state, idx, calls, call_old, upd_log, after_last>>
  /\ UNCHANGED reader_vars

\* line 268: the task is cancelled while it sleeps; CancelledError leaves
\* cascade_sync (and full_flash_sync) through no handler
Cancel(t) ==
  /\ pc[t] = "cs_sleep" /\ running = 0
  /\ returned' = [returned EXCEPT ![t] =
        [kind |-> "cancelled", coherence |-> 0, results |-> EmptyMap]]
  /\ pc' = [pc EXCEPT ![t] = "idle"]
  /\ call' = [call EXCEPT ![t] = "none"]
  /\ scale' = [scale EXCEPT ![t] = Obs(t, @, 1)]
  /\ idx' = [idx EXCEPT ![t] = Obs(t, @, 0)]
  /\ coherence' = [coherence EXCEPT ![t] = 0]
  /\ results' = [results EXCEPT ![t] = EmptyMap]
  /\ UNCHANGED <<observed, nodes, built, sync_state, running, calls, stage_old,
                 call_old, upd_log, after_last>>
  /\ UNCHANGED reader_vars

Step(t) ==
  \/ Call_cascade_sync(t)
  \/ Call_full_flash_sync(t)
  \/ FullNext(t)
  \/ CascadeUpdate(t)
  \/ Resume(t)
  \/ CascadeReturn(t)
  \/ FullStore(t)
  \/ FullReturn(t)
  \/ Cancel(t)

Next == \E t \in Callers : Step(t)

Spec == InitConcurrent /\ [][Next]_vars
SpecSingle == InitSingle /\ [][Next]_vars

\* The steps the event loop takes for a coroutine that is ready: it runs the
\* running coroutine on to its next await, and resumes it when its sleep of
\* 0.001 s (line 268) is over.
Run(t) ==
  \/ FullNext(t)
  \/ CascadeUpdate(t)
  \/ Resume(t)
  \/ CascadeReturn(t)
  \/ FullStore(t)
  \/ FullReturn(t)

\* the single caller makes one call
InitFair ==
  /\ InitSync(MaxNodes, CoherenceValues)
  /\ calls = [t \in Callers |-> IF t = 1 THEN 1 ELSE 0]
  /\ observed = {1}
  /\ initial = <<>>
  /\ NoReaders

\* The event loop is fair to a ready coroutine; whether a caller calls, and
\* whether a task is cancelled, is left open.
SpecFair == InitFair /\ [][Next]_vars /\ \A t \in Callers : WF_vars(Run(t))

\* ------------------------------------------------------ ConsensusEngine
\* line 303: the weight a node's vote carries
EffectiveWeight(node) ==
  IF node.layer = QUANTUM THEN phi_weight(node) ELSE node.weight

\* quantum_vote approving on a tie: >= for > at line 310
quantum_vote_tie(ns, b) ==
  LET votes == [i \in 1..Len(ns) |-> <<b[i], EffectiveWeight(ns[i])>>]
      yes_weight == SumSeq([i \in 1..Len(ns) |-> IF votes[i][1] THEN votes[i][2] ELSE 0])
      no_weight == SumSeq([i \in 1..Len(ns) |-> IF ~votes[i][1] THEN votes[i][2] ELSE 0])
  IN  [called |-> TRUE, approved |-> yes_weight >= no_weight,
       yes_weight |-> yes_weight, no_weight |-> no_weight,
       algorithm |-> "quantum_vote"]

\* lines 298-314: quantum_vote over the nodes ns, b[i] being the vote the
\* hash of line 302 gives the node at position i
quantum_vote(ns, b) ==
  LET votes == [i \in 1..Len(ns) |-> <<b[i], EffectiveWeight(ns[i])>>]
      yes_weight == SumSeq([i \in 1..Len(ns) |-> IF votes[i][1] THEN votes[i][2] ELSE 0])
      no_weight == SumSeq([i \in 1..Len(ns) |-> IF ~votes[i][1] THEN votes[i][2] ELSE 0])
  IN  [called |-> TRUE, approved |-> yes_weight > no_weight,
       yes_weight |-> yes_weight, no_weight |-> no_weight,
       algorithm |-> "quantum_vote"]

sync_vars == <<nodes, built, sync_state, running, pc, call, scale, idx, coherence,
               results, returned, calls, observed, stage_old, call_old, upd_log,
               after_last, initial>>

\* a task calls ConsensusEngine.quantum_vote(proposal) while no coroutine runs
Call_quantum_vote ==
  /\ reads > 0 /\ running = 0
  /\ vote' = quantum_vote(nodes, ballot)
  /\ reads' = reads - 1
  /\ UNCHANGED <<sync_vars, scores, ballot, swarm, average>>

\* a task calls calculate_coherence() on the built engine while no coroutine
\* runs (execute line 418, generate_report line 434)
Call_calculate_coherence ==
  /\ reads > 0 /\ running = 0 /\ built >= 1
  /\ swarm' = [called |-> TRUE, value |-> calculate_coherence(nodes)]
  /\ reads' = reads - 1
  /\ UNCHANGED <<sync_vars, scores, ballot, vote, average>>

WeightValues == {0, One, PHI}   \* 0.0, 1.0, 1.618

\* Freshly created nodes of any weight in the quantum or the application
\* layer, any outcome of the hash, no engine built yet.
InitVote ==
  /\ \E n \in 0..MaxNodes :
       \E layers \in [1..n -> {QUANTUM, "application"}] :
         \E weights \in [1..n -> WeightValues] :
           /\ nodes = [i \in 1..n |-> SwarmNode(NodeIds[i], layers[i], weights[i])]
           /\ ballot \in [1..n -> BOOLEAN]
  /\ built = 0
  /\ EngineInit
  /\ calls = [t \in Callers |-> 0]
  /\ observed = {}
  /\ initial = <<>>
  /\ ReadersInit
  /\ scores = <<>>
  /\ reads = MaxReads

NextVote ==
  \/ Construct
  \/ Call_quantum_vote
  \/ Call_calculate_coherence

SpecVote == InitVote /\ [][NextVote]_vars

\* ------------------------------------------------------- phi_weighted
\* A float is finite (v, in hundredths: 60.0 is 6000), NaN, +inf or -inf.
IsFinite(x) == x.k = "fin"

\* line 318: PHI ** i
RECURSIVE PowPHI(_)
PowPHI(i) == IF i = 0 THEN One ELSE Mul(PowPHI(i - 1), PHI)

\* v * w for a float v and a finite weight w > 0 (the product of line 318)
FTimes(x, w) == IF IsFinite(x) THEN Fin(x.v * w) ELSE x

\* IEEE addition of two floats
FPlus(x, y) ==
  IF x.k = "nan" \/ y.k = "nan" THEN NaN
  ELSE IF IsFinite(x) /\ IsFinite(y) THEN Fin(x.v + y.v)
  ELSE IF IsFinite(x) THEN y
  ELSE IF IsFinite(y) THEN x
  ELSE IF x.k = y.k THEN x
  ELSE NaN

\* sum(...) of line 318, left to right from 0
RECURSIVE FSum(_)
FSum(xs) ==
  IF Len(xs) = 0 THEN Fin(0)
  ELSE FPlus(FSum(SubSeq(xs, 1, Len(xs) - 1)), xs[Len(xs)])

\* total / weights of line 320, weights finite and positive
FOver(x, w) == IF IsFinite(x) THEN Fin((x.v + w \div 2) \div w) ELSE x

\* phi_weighted with every index weighted 1: the plain mean
phi_weighted_flat(values) ==
  LET n == Len(values)
      total == FSum([i \in 1..n |-> FTimes(values[i], One)])
      weights == SumSeq([i \in 1..n |-> One])
  IN  IF weights > 0 THEN FOver(total, weights) ELSE Fin(0)

\* phi_weighted weighting the last value 1 and the first the most
phi_weighted_reversed(values) ==
  LET n == Len(values)
      total == FSum([i \in 1..n |-> FTimes(values[i], PowPHI(n - i))])
      weights == SumSeq([i \in 1..n |-> PowPHI(n - i)])
  IN  IF weights > 0 THEN FOver(total, weights) ELSE Fin(0)

\* lines 316-320: phi_weighted(values); position i of the sequence is
\* index i - 1 of the list
phi_weighted(values) ==
  LET n == Len(values)
      total == FSum([i \in 1..n |-> FTimes(values[i], PowPHI(i - 1))])
      weights == SumSeq([i \in 1..n |-> PowPHI(i - 1)])
  IN  IF weights > 0 THEN FOver(total, weights) ELSE Fin(0)

\* a task calls ConsensusEngine.phi_weighted(vs), vs any sequence of S,
\* while no coroutine runs
Call_phi_weighted(S) ==
  /\ reads > 0 /\ running = 0
  /\ \E vs \in S :
       /\ scores' = vs
       /\ average' = [called |-> TRUE, value |-> phi_weighted(vs)]
  /\ reads' = reads - 1
  /\ UNCHANGED <<sync_vars, ballot, swarm, vote>>

RECURSIVE SeqsUpTo(_, _)
SeqsUpTo(S, n) ==
  IF n = 0 THEN {<<>>}
  ELSE LET shorter == SeqsUpTo(S, n - 1)
       IN  shorter \cup {Append(q, x) : q \in {r \in shorter : Len(r) = n - 1}, x \in S}

ScoreValues == {Fin(0), Fin(6000), Fin(8000), Fin(10000), NaN, Inf, NInf}
ScoreSeqs == SeqsUpTo(ScoreValues, MaxScores)

\* the master pack: the consensus engine shares the nodes of the built
\* swarm engine; one call of phi_weighted, as in execute (line 398)
InitAverage ==
  /\ InitSync(MaxNodes, {One})
  /\ calls = [t \in Callers |-> 0]
  /\ observed = {}
  /\ initial = <<>>
  /\ ReadersInit
  /\ scores = <<>>
  /\ ballot = [i \in 1..Len(nodes) |-> TRUE]
  /\ reads = 1

NextAverage == Call_phi_weighted(ScoreSeqs)

SpecAverage == InitAverage /\ [][NextAverage]_vars

\* --------------------------------------------- readers beside a cascade
SampleScoreSeqs == {<<>>, <<Fin(6000), Fin(8000), Fin(10000)>>}

\* One owner of the sync engine makes one call; other tasks read the nodes
\* through calculate_coherence, quantum_vote and phi_weighted whenever the
\* event loop is free, the sleeps of the cascade included.
InitReaders ==
  /\ InitSync(MaxConcNodes, CoherenceValues)
  /\ calls = [t \in Callers |-> IF t = 1 THEN 1 ELSE 0]
  /\ observed = {1}
  /\ initial = <<>>
  /\ ReadersInit
  /\ scores = <<>>
  /\ ballot \in [1..Len(nodes) -> BOOLEAN]
  /\ reads = MaxReads

NextReaders ==
  \/ \E t \in Callers : Step(t)
  \/ Call_calculate_coherence
  \/ Call_quantum_vote
  \/ Call_phi_weighted(SampleScoreSeqs)

SpecReaders == InitReaders /\ [][NextReaders]_vars

\* ------------------------------------------------ two cascade_sync calls
\* Two tasks call cascade_sync once each on the engine, one after the other
\* or overlapping at the sleeps; the coherences the engine starts from are
\* kept in initial.
InitPair ==
  /\ InitSync(MaxConcNodes, {3000, One})
  /\ calls = [t \in Callers |-> 1]
  /\ observed = Callers
  /\ initial = Coherences(nodes)
  /\ NoReaders

NextPair ==
  \E t \in Callers :
    \/ Call_cascade_sync(t)
    \/ CascadeUpdate(t)
    \/ Resume(t)
    \/ CascadeReturn(t)

SpecPair == InitPair /\ [][NextPair]_vars

\* ======================================================================
\* Properties of the entanglement graph (SpecBuild)
\* ======================================================================
Range(s) == {s[k] : k \in 1..Len(s)}
NoDuplicates(s) == \A k, l \in 1..Len(s) : k # l => s[k] # s[l]
IsQuantum(i) == nodes[i].layer = QUANTUM
Positions == 1..Len(nodes)

\* the identities the ring rule links position i to
RingNeighbours(i) ==
  {nodes[j].id : j \in {k \in Positions : k = i - 1 \/ k = i + 1}}

\* C7: graph construction is idempotent: once an engine has been built over
\* the nodes, building another engine over the same node objects leaves
\* every node's entanglement as it was.
C7_ConstructionIdempotent ==
  [][built >= 1 =>
       \A i \in Positions : nodes'[i].entanglement = nodes[i].entanglement]_vars

\* C8: after the graph is built over a matrix with unique identities, no
\* node's entanglement holds the node's own identity, and none holds an
\* identity twice (a link given by the ring rule and by the clique rule
\* appears once).
C8_NoSelfNoDuplicate ==
  built = 1 =>
    \A i \in Positions :
      /\ ~InSeq(nodes[i].id, nodes[i].entanglement)
      /\ NoDuplicates(nodes[i].entanglement)

\* a built matrix in which two adjacent nodes are both quantum, with a third
\* quantum node elsewhere: the ring link is also a clique link
C8_Witness ==
  /\ built = 1
  /\ \E i, j \in Positions :
       /\ i + 1 \in Positions /\ j \notin {i, i + 1}
       /\ IsQuantum(i) /\ IsQuantum(i + 1) /\ IsQuantum(j)
       /\ Len(nodes[i].entanglement) = 3

\* C9: in a matrix of length n >= 2 built once, position 0 has the single
\* ring neighbour at position 1, position n-1 the single ring neighbour at
\* position n-2, every interior position i the two at i-1 and i+1; a
\* non-quantum node's entanglement is exactly its ring neighbours, and what
\* a quantum node holds beyond them are quantum nodes.
C9_RingAdjacency ==
  (built = 1 /\ Len(nodes) >= 2) =>
    \A i \in Positions :
      /\ Cardinality(RingNeighbours(i)) = IF i = 1 \/ i = Len(nodes) THEN 1 ELSE 2
      /\ RingNeighbours(i) \subseteq Range(nodes[i].entanglement)
      /\ \A j \in Positions :
           (InSeq(nodes[j].id, nodes[i].entanglement)
              /\ nodes[j].id \notin RingNeighbours(i)) => (IsQuantum(i) /\ IsQuantum(j))
      /\ ~IsQuantum(i) =>
           /\ Range(nodes[i].entanglement) = RingNeighbours(i)
           /\ Len(nodes[i].entanglement) = Cardinality(RingNeighbours(i))

\* a built matrix with first, interior and last position, none of them quantum
C9_Witness ==
  /\ built = 1
  /\ Len(nodes) >= 3
  /\ \A i \in Positions : ~IsQuantum(i)
  /\ nodes[1].entanglement = <<nodes[2].id>>
  /\ nodes[2].entanglement = <<nodes[1].id, nodes[3].id>>

\* C10: after construction every two distinct quantum nodes are mutually
\* entangled, wherever they sit in the matrix.
C10_QuantumClique ==
  built >= 1 =>
    \A i, j \in Positions :
      (i # j /\ IsQuantum(i) /\ IsQuantum(j)) =>
        /\ InSeq(nodes[j].id, nodes[i].entanglement)
        /\ InSeq(nodes[i].id, nodes[j].entanglement)

\* a built matrix whose first and last nodes are quantum and not adjacent
C10_Witness ==
  /\ built = 1
  /\ Len(nodes) >= 3
  /\ IsQuantum(1) /\ IsQuantum(Len(nodes)) /\ ~IsQuantum(2)
  /\ InSeq(nodes[Len(nodes)].id, nodes[1].entanglement)

\* ======================================================================
\* Properties of cascade_sync and full_flash_sync
\* ======================================================================
ScaleOrder == <<"micro", "meso", "macro", "meta">>

\* 1 + 0.1 * multiplier for the four scales: 1.1, 1.1618, 1.2618, 1.4236
Gain(name) ==
  CASE name = "micro" -> 11000
    [] name = "meso"  -> 11618
    [] name = "macro" -> 12618
    [] name = "meta"  -> 14236

\* min(1.0, old * (1 + 0.1 * multiplier))
Raised(old, name) ==
  LET product == (old * Gain(name) + 5000) \div 10000
  IN  IF product > 10000 THEN 10000 ELSE product

\* the swarm coherence of the matrix if its nodes held the coherences cs
SwarmCoherenceOf(cs) ==
  calculate_coherence([i \in 1..Len(nodes) |-> [nodes[i] EXCEPT !.coherence = cs[i]]])

\* C1: a cascade_sync or full_flash_sync invoked while an earlier
\* cascade_sync on the engine is suspended mid-stage is rejected or delayed:
\* never are two invocations both suspended between their node updates.
C1_CallsSerialized ==
  \A t1, t2 \in Callers :
    t1 # t2 => ~(pc[t1] = "cs_sleep" /\ pc[t2] = "cs_sleep")

\* C2: over any sequence of cascade_sync calls at any scales from
\* coherences in [0,1], every node's coherence is at most 1.0 in every
\* state, the states between two node updates included, and no step
\* lowers a node's coherence.
C2_CoherenceMonotoneBounded ==
  /\ [](\A i \in Positions : nodes[i].coherence <= 10000)
  /\ [][\A i \in Positions : nodes'[i].coherence >= nodes[i].coherence]_vars

\* a stage is suspended after a node at 0.9 was raised past the ceiling and
\* left at 1.0
C2_Witness ==
  /\ pc[1] = "cs_sleep"
  /\ \E i \in 1..idx[1] :
       /\ stage_old[1][i] = 9000
       /\ (9000 * Gain(ScaleOrder[scale[1]])) \div 10000 > 10000
       /\ nodes[i].coherence = 10000

\* the node updates of one full_flash_sync over n nodes, in order
ExpectedLog(n) ==
  [j \in 1..(4 * n) |-> <<ScaleOrder[((j - 1) \div n) + 1], ((j - 1) % n) + 1>>]

IsPrefix(s, r) == Len(s) <= Len(r) /\ \A k \in 1..Len(s) : s[k] = r[k]

\* C3: one full_flash_sync runs cascade_sync once per scale in the order
\* micro, meso, macro, meta, no node of a later stage being updated before
\* every node was updated by the stage before; the mapping it returns has
\* exactly the four scale names as keys, each mapped to the swarm coherence
\* of the state reached right after that stage's last node update.
C3_FullSyncStages ==
  \A t \in observed :
    /\ call[t] = "full" =>
         /\ IsPrefix(upd_log[t], ExpectedLog(Len(nodes)))
         /\ DOMAIN results[t] = {ScaleOrder[k] : k \in 1..(scale[t] - 1)}
         /\ Len(nodes) >= 1 =>
              \A name \in DOMAIN results[t] : results[t][name] = after_last[t][name]
    /\ returned[t].kind = "results" =>
         /\ upd_log[t] = ExpectedLog(Len(nodes))
         /\ DOMAIN returned[t].results = {"micro", "meso", "macro", "meta"}
         /\ Len(nodes) >= 1 =>
              \A name \in DOMAIN returned[t].results :
                returned[t].results[name] = after_last[t][name]

\* a full_flash_sync over at least two nodes has returned a mapping whose
\* values rise from stage to stage
C3_Witness ==
  /\ returned[1].kind = "results"
  /\ Len(nodes) >= 2
  /\ Len(upd_log[1]) = 4 * Len(nodes)
  /\ returned[1].results["micro"] < returned[1].results["meso"]
  /\ returned[1].results["meso"] < returned[1].results["macro"]

\* the call of caller t started with every coherence in [0,1] and at least
\* one below 1.0
StartedBelowCeiling(t) ==
  /\ \A i \in 1..Len(call_old[t]) : call_old[t][i] >= 0 /\ call_old[t][i] <= 10000
  /\ \E i \in 1..Len(call_old[t]) : call_old[t][i] < 10000

\* C4 as stated: in a single caller's full_flash_sync started with at least
\* one node below 1.0, the swarm coherence recorded after each stage is
\* strictly greater than the one before the stage, unless that was already
\* 1.0, and then it stays 1.0.
C4_StrictlyIncreasing ==
  \A t \in observed :
    (call[t] = "full" /\ pc[t] = "ffs_store" /\ StartedBelowCeiling(t)) =>
      LET before == SwarmCoherenceOf(stage_old[t])
      IN  IF before = 10000 THEN coherence[t] = 10000 ELSE coherence[t] > before

\* C4 amended: the swarm coherence recorded after each stage is never less
\* than the one before the stage and stays 1.0 once it is 1.0; it is
\* strictly greater when some node of positive weight held, before the
\* stage, a coherence strictly between 0 and 1.
C4_NonDecreasing ==
  \A t \in observed :
    (call[t] = "full" /\ pc[t] = "ffs_store" /\ StartedBelowCeiling(t)) =>
      LET before == SwarmCoherenceOf(stage_old[t])
      IN  /\ coherence[t] >= before
          /\ before = 10000 => coherence[t] = 10000
          /\ (\E i \in Positions :
                /\ stage_old[t][i] > 0 /\ stage_old[t][i] < 10000
                /\ nodes[i].weight > 0) => coherence[t] > before

\* a stage has ended that raised one node while another stayed at 0
C4_Witness ==
  /\ call[1] = "full" /\ pc[1] = "ffs_store" /\ StartedBelowCeiling(1)
  /\ \E i, j \in Positions :
       /\ stage_old[1][i] = 0 /\ nodes[i].coherence = 0
       /\ stage_old[1][j] > 0 /\ nodes[j].coherence > stage_old[1][j]
  /\ coherence[1] > SwarmCoherenceOf(stage_old[1])
  /\ coherence[1] < 10000

\* C5: the status is idle after construction; cascade_sync(scale) sets it to
\* syncing at that scale before its first node update and keeps it until it
\* sets it back to idle on return; with a single caller the status is idle
\* between the stages of full_flash_sync and after it returns.
C5_StatusMachine ==
  \A t \in observed :
    /\ pc[t] \in {"cs_loop", "cs_sleep"} =>
         sync_state = "syncing_" \o ScaleOrder[scale[t]]
    /\ pc[t] = "ffs_store" => sync_state = "idle"
    /\ (pc[t] = "ffs_loop" /\ scale[t] > 1) => sync_state = "idle"
    /\ (pc[t] = "idle" /\ returned[t].kind \in {"coherence", "results"}) =>
         sync_state = "idle"
    /\ (\A u \in Callers : pc[u] = "idle" /\ call_old[u] = <<>> /\ upd_log[u] = <<>>
                           /\ returned[u].kind = "none") =>
         sync_state = "idle"

\* a single caller's full_flash_sync stands between its second and third
\* stage, the status back at idle after having been syncing_meso
C5_Witness ==
  /\ pc[1] = "ffs_loop" /\ scale[1] = 3
  /\ Len(nodes) >= 1
  /\ upd_log[1][Len(upd_log[1])] = <<"meso", Len(nodes)>>
  /\ sync_state = "idle"

\* C6: when a full_flash_sync is cancelled at a yield point, every node the
\* interrupted stage already updated holds min(1.0, old * (1 + 0.1 *
\* multiplier)) for that stage's scale, and every node it had not reached
\* holds the value it had before the stage.
C6_CancelKeepsPartialProgress ==
  \A t \in observed :
    returned[t].kind = "cancelled" =>
      \A i \in Positions :
        nodes[i].coherence =
          IF i <= idx[t] THEN Raised(stage_old[t][i], ScaleOrder[scale[t]])
                         ELSE stage_old[t][i]

\* a full_flash_sync was cancelled in a later stage with some nodes updated
\* and a node below 1.0 not yet reached
C6_Witness ==
  /\ returned[1].kind = "cancelled"
  /\ Len(upd_log[1]) > Len(nodes)
  /\ idx[1] < Len(nodes)
  /\ nodes[idx[1]].coherence > stage_old[1][idx[1]]
  /\ nodes[Len(nodes)].coherence < 10000
  /\ nodes[Len(nodes)].coherence = stage_old[1][Len(nodes)]

\* ======================================================================
\* Properties of the consensus engine and of calculate_coherence
\* ======================================================================
\* weight * 1.618 for a quantum node, the plain weight otherwise
VoteWeight(i) ==
  IF nodes[i].layer = "quantum"
  THEN (nodes[i].weight * 16180 + 5000) \div 10000
  ELSE nodes[i].weight

RECURSIVE SumOver(_, _)
SumOver(S, f) ==
  IF S = {} THEN 0
  ELSE LET x == CHOOSE y \in S : TRUE IN f[x] + SumOver(S \ {x}, f)

YesWeight == SumOver({i \in Positions : ballot[i]}, [i \in Positions |-> VoteWeight(i)])
NoWeight == SumOver({i \in Positions : ~ballot[i]}, [i \in Positions |-> VoteWeight(i)])

\* C11: for every assignment of votes, quantum_vote returns as yes_weight
\* the sum of the effective weights of the yes-voting nodes and as no_weight
\* that of the no-voting nodes (weight * phi for a quantum node, the plain
\* weight otherwise); approved is true exactly when yes_weight > no_weight,
\* so a tie is not approved.
C11_WeightedVote ==
  vote.called =>
    /\ vote.yes_weight = YesWeight
    /\ vote.no_weight = NoWeight
    /\ vote.approved <=> (YesWeight > NoWeight)
    /\ (YesWeight = NoWeight) => ~vote.approved

\* a vote was taken in which a quantum node of weight 1.0 voting yes ties
\* with an application node of weight 1.618 voting no
C11_Witness ==
  /\ vote.called
  /\ \E i, j \in Positions :
       /\ nodes[i].layer = "quantum" /\ nodes[i].weight = 10000 /\ ballot[i]
       /\ nodes[j].layer # "quantum" /\ nodes[j].weight = 16180 /\ ~ballot[j]
  /\ vote.yes_weight = vote.no_weight /\ vote.yes_weight > 0
  /\ ~vote.approved

\* the sum of the derived weights of the nodes
DerivedWeightSum ==
  SumOver(Positions, [i \in Positions |-> (nodes[i].weight * 16180 + 5000) \div 10000])

\* C12: building the engine over an empty matrix completes, leaving an idle
\* engine over no nodes, and calculate_coherence returns 0 whenever the sum
\* of the derived weights is zero (empty matrix, or all weights zero).
C12_ZeroDenominator ==
  /\ (built >= 1 /\ Len(nodes) = 0) => (nodes = <<>> /\ sync_state = "idle")
  /\ (Len(nodes) = 0 /\ built < MaxBuilds) => ENABLED Construct
  /\ (swarm.called /\ DerivedWeightSum = 0) => swarm.value = 0

\* calculate_coherence was called on an engine built over the empty matrix
C12_Witness ==
  /\ built = 1
  /\ nodes = <<>>
  /\ swarm.called /\ swarm.value = 0

\* ======================================================================
\* Properties of the scale-weighted average (SpecAverage)
\* ======================================================================
AllFinite(vs) == \A i \in 1..Len(vs) : vs[i].k = "fin"

\* C13: a score sequence containing NaN or an infinity is rejected with an
\* error, and the average never returns NaN or an infinity.
C13_NonFiniteRejected ==
  average.called =>
    /\ average.value.k \in {"fin", "error"}
    /\ ~AllFinite(scores) => average.value.k = "error"

\* phi ** i, index 0 weighted 1
RECURSIVE PhiPower(_)
PhiPower(i) == IF i = 0 THEN 10000 ELSE (PhiPower(i - 1) * 16180 + 5000) \div 10000

RECURSIVE WeightedSum(_, _)
WeightedSum(vs, n) ==
  IF n = 0 THEN 0 ELSE WeightedSum(vs, n - 1) + vs[n].v * PhiPower(n - 1)

RECURSIVE WeightTotal(_)
WeightTotal(n) == IF n = 0 THEN 0 ELSE WeightTotal(n - 1) + PhiPower(n - 1)

Quotient(a, b) == (a + b \div 2) \div b

\* C14: for finite scores the average is 0 for the empty sequence, x for
\* [x], (a + b*phi)/(1 + phi) for [a, b], and in general
\* sum(v_i * phi^i) / sum(phi^i) with index 0 weighted 1.
C14_WeightedAverage ==
  (average.called /\ AllFinite(scores)) =>
    /\ average.value.k = "fin"
    /\ Len(scores) = 0 => average.value.v = 0
    /\ Len(scores) = 1 => average.value.v = scores[1].v
    /\ Len(scores) = 2 =>
         average.value.v = Quotient(scores[1].v * 10000 + scores[2].v * 16180,
                                    10000 + 16180)
    /\ Len(scores) >= 1 =>
         average.value.v = Quotient(WeightedSum(scores, Len(scores)),
                                    WeightTotal(Len(scores)))

\* the average of two different finite scores was taken
C14_Witness ==
  /\ average.called
  /\ Len(scores) = 2
  /\ scores[1] = Fin(6000) /\ scores[2] = Fin(10000)
  /\ average.value = Fin(8472)

SampleScores == <<Fin(6000), Fin(8000), Fin(10000)>>

\* C15 as stated: the average of [60, 80, 100] is 86.67 to two decimals.
C15_SampleIs8667 ==
  (average.called /\ scores = SampleScores) => average.value = Fin(8667)

\* C15: the average of [60, 80, 100], (60 + 80 phi + 100 phi^2) /
\* (1 + phi + phi^2), is 86.18 to two decimals.
C15_SampleIs8618 ==
  (average.called /\ scores = SampleScores) => average.value = Fin(8618)

\* the average of [60, 80, 100] was taken
C15_Witness ==
  /\ average.called
  /\ scores = SampleScores
  /\ average.value.k = "fin"
  /\ average.value.v > 8000 /\ average.value.v < 10000

\* ======================================================================
\* Termination of the calls (SpecFair)
\* ======================================================================
\* every position of 1..n is updated exactly once per stage in the log
UpdatesPerNode(log, n, count) ==
  /\ Len(log) = count * n
  /\ \A i \in 1..n : Cardinality({j \in 1..Len(log) : log[j][2] = i}) = count

CascadeDone ==
  /\ pc[1] = "idle"
  /\ returned[1].kind = "cancelled"
     \/ /\ returned[1].kind = "coherence"
        /\ UpdatesPerNode(upd_log[1], Len(nodes), 1)
        /\ sync_state = "idle"

FullDone ==
  /\ pc[1] = "idle"
  /\ returned[1].kind = "cancelled"
     \/ /\ returned[1].kind = "results"
        /\ UpdatesPerNode(upd_log[1], Len(nodes), 4)
        /\ sync_state = "idle"

\* C16: under a fair event loop every cascade_sync call that is not
\* cancelled eventually returns, after exactly one update per node, and
\* every full_flash_sync call that is not cancelled eventually returns,
\* after exactly 4 * n node updates; the status is idle at the return.
C16_CallsReturn ==
  /\ (call[1] = "cascade") ~> CascadeDone
  /\ (call[1] = "full") ~> FullDone

\* a full_flash_sync over three nodes has returned after twelve updates
\* with the status idle
C16_Witness ==
  /\ pc[1] = "idle"
  /\ returned[1].kind = "results"
  /\ Len(nodes) = 3
  /\ UpdatesPerNode(upd_log[1], 3, 4)
  /\ sync_state = "idle"

\* ======================================================================
\* Frame and yield properties (SpecReaders)
\* ======================================================================
\* the step is a call of calculate_coherence, quantum_vote or phi_weighted
ReadStep == reads' # reads

SameButCoherence(old, new) ==
  /\ Len(new) = Len(old)
  /\ \A i \in 1..Len(old) :
       /\ new[i].id = old[i].id
       /\ new[i].weight = old[i].weight
       /\ new[i].layer = old[i].layer
       /\ new[i].entanglement = old[i].entanglement

\* C17: calculate_coherence, quantum_vote and phi_weighted leave every
\* node as it is; a step of cascade_sync or full_flash_sync changes at most
\* coherences and leaves every node's weight, layer and entanglement and
\* the set and order of the nodes as they are.
C17_Frame ==
  [][/\ ReadStep => nodes' = nodes
     /\ SameButCoherence(nodes, nodes')]_vars

\* between two node updates of a cascade, with a node already raised, a
\* vote and a coherence reading were taken
C17_Witness ==
  /\ pc[1] = "cs_sleep"
  /\ idx[1] < Len(nodes)
  /\ nodes[1].coherence > call_old[1][1]
  /\ vote.called
  /\ swarm.called

\* the coherence-weighted mean of cs by the nodes' derived weights
WeightedCoherence(cs) ==
  LET w == [i \in Positions |-> (nodes[i].weight * 16180 + 5000) \div 10000]
      total == SumOver(Positions, [i \in Positions |-> (cs[i] * w[i] + 5000) \div 10000])
      full == SumOver(Positions, w)
  IN  IF full > 0 THEN (total * 10000 + full \div 2) \div full ELSE 0

\* the coherences one uninterrupted cascade at the named scale makes of cs
Uninterrupted(cs, name) == [i \in 1..Len(cs) |-> Raised(cs[i], name)]

\* C18: with a single owner of the cascade and tasks beside it that only
\* read, a cascade_sync that yields after each node update ends with the
\* per-node coherences, and returns the swarm coherence, of a cascade that
\* does all its updates in one uninterrupted step.
C18_YieldUnobservable ==
  (returned[1].kind = "coherence" /\ Len(nodes) >= 1) =>
    LET atomic == Uninterrupted(call_old[1], upd_log[1][1][1])
    IN  /\ Coherences(nodes) = atomic
        /\ returned[1].coherence = WeightedCoherence(atomic)

\* a cascade over two nodes has returned, and a task read a swarm coherence
\* in between its two updates that is neither the one before nor the one
\* after the cascade
C18_Witness ==
  /\ returned[1].kind = "coherence"
  /\ Len(nodes) = 2
  /\ swarm.called
  /\ swarm.value > WeightedCoherence(call_old[1])
  /\ swarm.value < returned[1].coherence

\* ======================================================================
\* The status under interleaving and cancellation (Spec)
\* ======================================================================
\* a cascade_sync invocation of caller t has started and neither returned
\* nor been cancelled
InCascade(t) == pc[t] \in {"cs_loop", "cs_sleep"}

\* C19: in every reachable state, interleaved and cancelled calls
\* included, sync_state is "idle" if and only if no cascade_sync invocation
\* has started without having returned or been cancelled.
C19_IdleIffNoCascade ==
  (sync_state = "idle") <=> (\A t \in Callers : ~InCascade(t))

\* ======================================================================
\* Two cascade_sync calls in either order or interleaved (SpecPair)
\* ======================================================================
BothDone ==
  /\ Len(nodes) >= 1
  /\ \A t \in Callers : pc[t] = "idle" /\ returned[t].kind = "coherence"

\* the scale caller t's cascade ran at
ScaleOf(t) == upd_log[t][1][1]

\* a coherence after a cascade at scale a followed by one at scale b
Sequential(c, a, b) == Raised(Raised(c, a), b)

FirstThenSecond(i) == Sequential(initial[i], ScaleOf(1), ScaleOf(2))
SecondThenFirst(i) == Sequential(initial[i], ScaleOf(2), ScaleOf(1))

\* C20 as stated: once both calls have completed, every node's coherence
\* is the one both sequential orders of the two calls give it, whatever the
\* schedule was.
C20_UpdatesCommute ==
  BothDone =>
    \A i \in Positions :
      /\ nodes[i].coherence = FirstThenSecond(i)
      /\ nodes[i].coherence = SecondThenFirst(i)

\* C20: once both calls have completed, every node's coherence is the one
\* that one of the two sequential orders gives that node, and the two
\* orders differ by no more than the rounding of the last digit.
C20_UpdatesCommuteUpToRounding ==
  BothDone =>
    \A i \in Positions :
      /\ nodes[i].coherence \in {FirstThenSecond(i), SecondThenFirst(i)}
      /\ FirstThenSecond(i) - SecondThenFirst(i) \in {-1, 0, 1}

\* both calls have completed after overlapping (the second started between
\* the first one's two updates), at scales whose two orders round a node's
\* coherence differently
C20_Witness ==
  /\ BothDone
  /\ Len(nodes) = 2
  /\ call_old[2][1] > initial[1]
  /\ call_old[2][2] = initial[2]
  /\ \E i \in Positions : FirstThenSecond(i) # SecondThenFirst(i)

\* ======================================================================
\* Symmetry of the entanglement graph (SpecBuild)
\* ======================================================================
\* the node at position i holds the identity of the node at position j
Holds(i, j) == \E k \in 1..Len(nodes[i].entanglement) : nodes[i].entanglement[k] = nodes[j].id

\* C21: after a single construction over a matrix with unique identities
\* the entanglement relation is symmetric: for all nodes a and b, b's
\* identity is in a's entanglement if and only if a's identity is in b's,
\* the first and the last position of the matrix included.
C21_EntanglementSymmetric ==
  built = 1 =>
    \A a, b \in Positions : Holds(a, b) <=> Holds(b, a)

\* a matrix of at least three nodes built once, in which the first node is
\* linked both ways with its ring neighbour and, being quantum like the
\* last, both ways with the last node, and not at all with a node between
C21_Witness ==
  /\ built = 1
  /\ Len(nodes) >= 3
  /\ Holds(1, 2) /\ Holds(2, 1)
  /\ Holds(1, Len(nodes)) /\ Holds(Len(nodes), 1)
  /\ \E m \in Positions : m > 2 /\ ~Holds(1, m) /\ ~Holds(m, 1)

====
